---- MODULE Spec2Model ----
(***************************************************************************)
(* Model of the gpu-dashboard collector: the alias canonicaliser, the      *)
(* snapshot reducer, the aggregate store updater (fetch_stats.py) and the  *)
(* achievement evaluator and store (achievements.py).                      *)
(*                                                                         *)
(* Representation choices                                                  *)
(*  - a timestamp (datetime.utcnow().isoformat()) is the value of a clock  *)
(*    that advances by one on every poll cycle; None is 0;                 *)
(*  - a float is kept as an exact rational [num, den]; a comparison        *)
(*    x >= n is num >= n * den;                                            *)
(*  - f"{server_name}:{gpu_index}" is the pair <<name, index>>, and a      *)
(*    machine name is the pair <<name, suffix>> where suffix is "" or      *)
(*    " (CPU)" (the f"{server_name} (CPU)" tag);                           *)
(*  - an elapsed-time string is its parse tree [d, comps] (see             *)
(*    parse_elapsed_time);                                                 *)
(*  - a process whose "user" key is absent is a process whose user is "";  *)
(*    the code reads both with proc.get("user") or "unknown";              *)
(*  - a store file is the value json.load returns for it; while its name is *)
(*    in `unparsable` json.load raises instead, and the variable keeps the  *)
(*    value the file held before it was damaged, which no reader sees;      *)
(*  - a local value is named by {e(x) : x \in {v}} where a LET would be     *)
(*    evaluated again at every use;                                        *)
(*  - Python iterates a set in an unspecified order; the model iterates    *)
(*    sets and dicts in one fixed order (SetToSeq). Only the order of the  *)
(*    newly-earned list depends on it.                                     *)
(***************************************************************************)
EXTENDS Integers, Sequences, FiniteSets, TLC

VARIABLES
    alias_map,          \* fetch_stats.py:291 the alias map loaded by the last cycle
    all_stats,          \* fetch_stats.py:286 the snapshot of the last cycle
    aggregate,          \* aggregate_stats.json
    achievements_data,  \* achievements.json
    new_achievements,   \* the list returned by the last check_achievements call
    clock,              \* number of poll cycles run so far; the cycle's timestamp
    c_in,               \* canonicaliser probe: the raw username handed in
    c_out,              \* canonicaliser probe: <<canonicalize_user, canonicalize>> results
    unparsable,         \* the store files whose bytes json.load rejects
    runs                \* the local state of each of two overlapping runs of the script

vars == <<alias_map, all_stats, aggregate, achievements_data, new_achievements,
          clock, c_in, c_out, unparsable, runs>>

----------------------------------------------------------------------------
(* Generic helpers *)

Max(a, b) == IF a >= b THEN a ELSE b

\* The one(...) of a one-element set is its element.  {e(x) : x \in {v}} names
\* the value v, so that it is computed once however often e uses it.
one(S) == CHOOSE x \in S : TRUE

RECURSIVE SetToSeq(_)
SetToSeq(S) ==
    IF S = {} THEN <<>>
    ELSE one({ one({ <<x>> \o SetToSeq(rest) : rest \in { S \ {x} } }) : x \in { one(S) } })

RECURSIVE SumFrom(_, _)
SumFrom(s, i) ==
    IF i > Len(s) THEN 0 ELSE one({ s[i] + SumFrom(s, j) : j \in { i + 1 } })

SumSeq(s) == one({ SumFrom(v, 1) : v \in { s } })

RECURSIVE MaxFrom(_, _)
MaxFrom(s, i) ==
    IF i > Len(s) THEN 0 ELSE one({ Max(s[i], m) : m \in { MaxFrom(s, i + 1) } })

MaxSeq(s) == one({ MaxFrom(v, 1) : v \in { s } })

RECURSIVE ConcatFrom(_, _)
ConcatFrom(ss, i) ==
    IF i > Len(ss) THEN <<>> ELSE one({ ss[i] \o ConcatFrom(ss, j) : j \in { i + 1 } })

Concat(ss) == one({ ConcatFrom(v, 1) : v \in { ss } })

Range(s) == {s[i] : i \in DOMAIN s}

EmptyMap == [x \in {} |-> 0]

----------------------------------------------------------------------------
(* Canonicaliser *)

\* str.lower() on the usernames of the model
lower(s) ==
    CASE s = "Al" -> "al"
      [] s = "AL" -> "al"
      [] s = "Alice" -> "alice"
      [] s = "Bob" -> "bob"
      [] s = "ROOT" -> "root"
      [] OTHER -> s

\* a use of the alias map without folding the case of the key
canonicalize_user_nolower(username, amap) ==
    IF username = "" THEN "unknown"
    ELSE IF username \in DOMAIN amap THEN amap[username] ELSE username

canonicalize_user(username, amap) ==
    IF username = "" THEN "unknown"
    ELSE IF lower(username) \in DOMAIN amap THEN amap[lower(username)] ELSE username

canonicalize(username, amap) ==
    IF username = "" THEN "unknown"
    ELSE IF lower(username) \in DOMAIN amap THEN amap[lower(username)] ELSE username

----------------------------------------------------------------------------
(* Elapsed-time strings.  "D-H:M:S" is [d |-> D, comps |-> <<H, M, S>>];     *)
(* a string without '-' has d = NoDays; a field that int() rejects is Bad.  *)

NoDays == 0 - 2
Bad == 0 - 1

\* hours, as the rational [num seconds, den 3600]
parse_elapsed_time(t) ==
    LET days == IF t.d = NoDays THEN 0 ELSE t.d
        ok == /\ t.d # Bad
              /\ Len(t.comps) = 3
              /\ \A i \in DOMAIN t.comps : t.comps[i] # Bad
    IN  IF ok
        THEN days * 24 * 3600 + t.comps[1] * 3600 + t.comps[2] * 60 + t.comps[3]
        ELSE 0

----------------------------------------------------------------------------
(* Snapshot reducer of the achievement evaluator *)

raw_user_of(proc) == IF proc.user = "" THEN "unknown" ELSE proc.user

\* the raw names taken for the users of a GPU
GpuUserSet_raw(gpu, amap) ==
    { raw_user_of(gpu.processes[p]) :
        p \in { q \in DOMAIN gpu.processes : raw_user_of(gpu.processes[q]) # "root" } }

\* the canonical users of the non-root processes of one GPU record
GpuUserSet(gpu, amap) ==
    { canonicalize(raw_user_of(gpu.processes[p]), amap) :
        p \in { q \in DOMAIN gpu.processes : raw_user_of(gpu.processes[q]) # "root" } }

server_users(server, amap) ==
    UNION { GpuUserSet(server.gpus[g], amap) : g \in DOMAIN server.gpus }

\* gpu_users[gpu_index] is reset by every GPU record carrying that index, so
\* it holds the users of the last such record
gpu_users(server, amap) ==
    [ idx \in { server.gpus[g].index : g \in DOMAIN server.gpus } |->
        LET last == CHOOSE g \in DOMAIN server.gpus :
                        /\ server.gpus[g].index = idx
                        /\ \A h \in DOMAIN server.gpus :
                              server.gpus[h].index = idx => h <= g
        IN  GpuUserSet(server.gpus[last], amap) ]

\* a reducer that walks the servers marked with an error like the others
Visited_errored(stats) ==
    { t \in UNION { UNION { { <<s, g, p>> : p \in DOMAIN stats.servers[s].gpus[g].processes } :
                              g \in DOMAIN stats.servers[s].gpus } :
                      s \in DOMAIN stats.servers } :
        raw_user_of(stats.servers[t[1]].gpus[t[2]].processes[t[3]]) # "root" }

\* (server, gpu, process) positions the reducer visits: non-errored server,
\* raw user other than "root"
Visited(stats) ==
    { t \in UNION { UNION { { <<s, g, p>> : p \in DOMAIN stats.servers[s].gpus[g].processes } :
                              g \in DOMAIN stats.servers[s].gpus } :
                      s \in DOMAIN stats.servers } :
        /\ ~ stats.servers[t[1]].error
        /\ raw_user_of(stats.servers[t[1]].gpus[t[2]].processes[t[3]]) # "root" }

ProcAt(stats, t) == stats.servers[t[1]].gpus[t[2]].processes[t[3]]
GpuAt(stats, t) == stats.servers[t[1]].gpus[t[2]]

\* floor of (mem_used / mem_total) * 100; the thresholds it is compared with
\* are integers, so the floor decides the same comparisons
mem_percent(gpu) ==
    IF gpu.mem_total > 0 THEN (gpu.mem_used * 100) \div gpu.mem_total ELSE 0

\* the stats of user u, `mine` being the visited positions whose canonical
\* user is u
user_stats(stats, amap, u, mine) ==
    [ gpu_count |->
          Cardinality({ <<stats.servers[mine[i][1]].name, GpuAt(stats, mine[i]).index>> :
                          i \in DOMAIN mine }),
      machines |-> { stats.servers[mine[i][1]].name : i \in DOMAIN mine },
      total_mem_mb |-> SumSeq([ i \in DOMAIN mine |-> ProcAt(stats, mine[i]).mem ]),
      max_gpu_mem_percent |->
          MaxSeq([ i \in DOMAIN mine |-> mem_percent(GpuAt(stats, mine[i])) ]),
      max_gpu_util |-> MaxSeq([ i \in DOMAIN mine |-> GpuAt(stats, mine[i]).util ]),
      max_process_hours |->
          MaxSeq([ i \in DOMAIN mine |-> parse_elapsed_time(ProcAt(stats, mine[i]).time) ]),
      cpu_machines |->
          { stats.servers[s].name :
              s \in { r \in DOMAIN stats.servers :
                        /\ ~ stats.servers[r].error
                        /\ stats.servers[r].cpu_util > 95
                        /\ u \in server_users(stats.servers[r], amap) } } ]

user_snapshot(stats, amap) ==
    LET canon(t) == canonicalize(raw_user_of(ProcAt(stats, t)), amap)
    IN  one({ [ u \in { canon(t) : t \in vis } |->
                  one({ user_stats(stats, amap, u, mine) :
                          mine \in { SetToSeq({ t \in vis : canon(t) = u }) } }) ] :
              vis \in { Visited(stats) } })

----------------------------------------------------------------------------
(* Achievement store *)

\* The store maps user -> achievement id -> [earned_at].  The copy of the
\* static ACHIEVEMENTS entry kept beside earned_at is a function of the id
\* and is left out.
award_achievement_restamp(data, user, achievement_id, timestamp, new_list) ==
    LET users1 == IF user \in DOMAIN data.users THEN data.users
                  ELSE data.users @@ (user :> EmptyMap)
        fresh == achievement_id \notin DOMAIN users1[user]
        users2 == [ users1 EXCEPT ![user] =
                      (achievement_id :> [earned_at |-> timestamp]) @@ @ ]
    IN  [ data |-> [ data EXCEPT !.users = users2 ],
          new |-> IF fresh
                  THEN Append(new_list, [ user |-> user, achievement_id |-> achievement_id,
                                          timestamp |-> timestamp ])
                  ELSE new_list ]

award_achievement_always_append(data, user, achievement_id, timestamp, new_list) ==
    LET users1 == IF user \in DOMAIN data.users THEN data.users
                  ELSE data.users @@ (user :> EmptyMap)
        users2 == [ users1 EXCEPT ![user] =
                      @ @@ (achievement_id :> [earned_at |-> timestamp]) ]
    IN  [ data |-> [ data EXCEPT !.users = users2 ],
          new |-> Append(new_list, [ user |-> user, achievement_id |-> achievement_id,
                                     timestamp |-> timestamp ]) ]

award_achievement(data, user, achievement_id, timestamp, new_list) ==
    LET users1 == IF user \in DOMAIN data.users THEN data.users
                  ELSE data.users @@ (user :> EmptyMap)
    IN  IF achievement_id \notin DOMAIN users1[user]
        THEN [ data |-> [ data EXCEPT !.users =
                            [ users1 EXCEPT ![user] =
                                @ @@ (achievement_id :> [earned_at |-> timestamp]) ] ],
               new |-> Append(new_list, [ user |-> user, achievement_id |-> achievement_id,
                                          timestamp |-> timestamp ]) ]
        ELSE [ data |-> [ data EXCEPT !.users = users1 ], new |-> new_list ]

\* achievements.py lines 157-167; a missing file and one json.load rejects
\* both give the empty store
load_achievements(file, bad) ==
    IF "achievements" \in bad THEN [ users |-> EmptyMap, updated_at |-> 0 ] ELSE file

\* the award_achievement calls of `calls`, a sequence of <<user, id>>, in order
RECURSIVE AwardAll(_, _, _, _)
AwardAll(data, calls, timestamp, new_list) ==
    IF calls = <<>> THEN [ data |-> data, new |-> new_list ]
    ELSE one({ AwardAll(r.data, rest, timestamp, r.new) :
                 r \in { award_achievement(data, Head(calls)[1], Head(calls)[2],
                                           timestamp, new_list) },
                 rest \in { Tail(calls) } })

----------------------------------------------------------------------------
(* Achievement evaluator: the award_achievement calls of one pass *)

CallsFor(users, id) == [ i \in DOMAIN users |-> <<users[i], id>> ]

PartyCalls(server, amap) ==
    one({ IF Cardinality(su) >= 4 THEN CallsFor(SetToSeq(su), "party_machine") ELSE <<>> :
            su \in { server_users(server, amap) } })

\* gu is gpu_users; occupied the indexes whose set is not empty
FullHouseFrom(gu, occupied) ==
    LET total_gpus == Cardinality(DOMAIN gu)
        occupied_gpus == Cardinality(occupied)
    IN  IF /\ total_gpus > 0
           /\ occupied_gpus = total_gpus
           /\ occupied_gpus > 1
        THEN one({ IF Len(all_users_per_gpu) > 1
                   THEN Concat([ i \in DOMAIN all_users_per_gpu |->
                                   CallsFor(SetToSeq(gu[all_users_per_gpu[i]]), "full_house") ])
                   ELSE <<>> :
                     all_users_per_gpu \in { SetToSeq(occupied) } })
        ELSE <<>>

FullHouseCalls(server, amap) ==
    one({ FullHouseFrom(gu, { idx \in DOMAIN gu : gu[idx] # {} }) :
            gu \in { gpu_users(server, amap) } })

RoommateCalls(server, amap) ==
    one({ Concat([ i \in DOMAIN idxs |->
                     IF Cardinality(gu[idxs[i]]) >= 2
                     THEN CallsFor(SetToSeq(gu[idxs[i]]), "gpu_roommate")
                     ELSE <<>> ]) :
            gu \in { gpu_users(server, amap) },
            idxs \in { SetToSeq({ g.index : g \in Range(server.gpus) }) } })

CoopCalls(stats, amap) ==
    Concat([ s \in DOMAIN stats.servers |->
               IF stats.servers[s].error THEN <<>>
               ELSE PartyCalls(stats.servers[s], amap)
                      \o FullHouseCalls(stats.servers[s], amap)
                      \o RoommateCalls(stats.servers[s], amap) ])

\* each pair of nested thresholds written as an if / elif chain
UserRules_elif(st) ==
    << <<TRUE, "first_blood">>,
       <<st.gpu_count >= 4, "quad_gpu_master">>,
       <<st.gpu_count < 4 /\ st.gpu_count >= 8, "gpu_hoarder">>,
       <<st.total_mem_mb >= 300 * 1024, "ram_beast">>,
       <<st.total_mem_mb < 300 * 1024 /\ st.total_mem_mb >= 500 * 1024, "ram_monster">>,
       <<st.max_gpu_mem_percent >= 90, "memory_titan">>,
       <<st.max_gpu_mem_percent < 90 /\ st.max_gpu_mem_percent >= 99, "memory_perfectionist">>,
       <<st.max_gpu_util >= 95, "utilization_champion">>,
       <<st.max_process_hours >= 24 * 3600, "gpu_marathon">>,
       <<st.max_process_hours < 24 * 3600 /\ st.max_process_hours >= 168 * 3600,
         "gpu_ultra_marathon">>,
       <<Cardinality(st.cpu_machines) > 0, "cpu_maximus">>,
       <<Cardinality(st.machines) >= 3, "cluster_commander">>,
       <<Cardinality(st.machines) < 3 /\ Cardinality(st.machines) >= 5, "cluster_overlord">>,
       <<st.gpu_count > 0 /\ st.max_gpu_util >= 80, "efficiency_expert">> >>

\* <<condition, id>> in the order of the code
UserRules(st) ==
    << <<TRUE, "first_blood">>,
       <<st.gpu_count >= 4, "quad_gpu_master">>,
       <<st.gpu_count >= 8, "gpu_hoarder">>,
       <<st.total_mem_mb >= 300 * 1024, "ram_beast">>,
       <<st.total_mem_mb >= 500 * 1024, "ram_monster">>,
       <<st.max_gpu_mem_percent >= 90, "memory_titan">>,
       <<st.max_gpu_mem_percent >= 99, "memory_perfectionist">>,
       <<st.max_gpu_util >= 95, "utilization_champion">>,
       <<st.max_process_hours >= 24 * 3600, "gpu_marathon">>,
       <<st.max_process_hours >= 168 * 3600, "gpu_ultra_marathon">>,
       <<Cardinality(st.cpu_machines) > 0, "cpu_maximus">>,
       <<Cardinality(st.machines) >= 3, "cluster_commander">>,
       <<Cardinality(st.machines) >= 5, "cluster_overlord">>,
       <<st.gpu_count > 0 /\ st.max_gpu_util >= 80, "efficiency_expert">> >>

RulesToCalls(user, rules) ==
    one({ [ i \in DOMAIN hit |-> <<user, hit[i][2]>> ] :
            hit \in { SelectSeq(rules, LAMBDA r : r[1]) } })

ThresholdCalls(stats, amap) ==
    one({ one({ Concat([ i \in DOMAIN users |->
                           one({ RulesToCalls(users[i], UserRules(st)) :
                                   st \in { snap[users[i]] } }) ]) :
                  users \in { SetToSeq(DOMAIN snap) } }) :
            snap \in { user_snapshot(stats, amap) } })

LifetimeRules(agg_stats) ==
    << <<agg_stats.total_gb_hours.num >= 100 * agg_stats.total_gb_hours.den, "gpu_veteran">>,
       <<agg_stats.total_gb_hours.num >= 1000 * agg_stats.total_gb_hours.den, "gpu_hero">>,
       <<agg_stats.total_gb_hours.num >= 10000 * agg_stats.total_gb_hours.den, "gpu_legend">>,
       <<Cardinality(agg_stats.all_machines) >= 10, "globe_trotter">> >>

\* lifetime awards stored under the aggregate key as it stands
LifetimeCalls_raw(aggregate_stats, amap) ==
    LET keys == SetToSeq(DOMAIN aggregate_stats.users)
    IN  Concat([ i \in DOMAIN keys |->
                   RulesToCalls(keys[i], LifetimeRules(aggregate_stats.users[keys[i]])) ])

LifetimeCalls(aggregate_stats, amap) ==
    LET keys == SetToSeq(DOMAIN aggregate_stats.users)
    IN  Concat([ i \in DOMAIN keys |->
                   RulesToCalls(canonicalize(keys[i], amap),
                                LifetimeRules(aggregate_stats.users[keys[i]])) ])

check_achievements(stats, aggregate_stats, amap, data, now) ==
    one({ AwardAll(data, calls, now, <<>>) :
            calls \in { CoopCalls(stats, amap) \o ThresholdCalls(stats, amap)
                          \o LifetimeCalls(aggregate_stats, amap) } })

----------------------------------------------------------------------------
(* Snapshot totals and the aggregate store updater (fetch_stats.py) *)

RootCounted(stats) ==
    { t \in UNION { UNION { { <<s, g, p>> : p \in DOMAIN stats.servers[s].gpus[g].processes } :
                              g \in DOMAIN stats.servers[s].gpus } :
                      s \in DOMAIN stats.servers } :
        ~ stats.servers[t[1]].error }

\* the (server, gpu, process) positions both loops of compute_snapshot_totals
\* count: non-errored server, raw user other than "root"
Counted(stats) == Visited(stats)

\* the totals entry of one user, `mine` being the counted positions whose
\* canonical user it is
user_totals(stats, mine) ==
    [ mem |-> SumSeq([ i \in DOMAIN mine |-> ProcAt(stats, mine[i]).mem ]),
      machines |->
          { <<stats.servers[mine[i][1]].name, "">> : i \in DOMAIN mine }
          \cup { <<stats.servers[mine[i][1]].name, " (CPU)">> :
                   i \in { j \in DOMAIN mine : stats.servers[mine[j][1]].cpu_util > 50 } },
      raw_users |-> { raw_user_of(ProcAt(stats, mine[i])) : i \in DOMAIN mine } ]

compute_snapshot_totals(stats, amap) ==
    LET canon(t) == canonicalize_user(raw_user_of(ProcAt(stats, t)), amap)
        live == SetToSeq({ s \in DOMAIN stats.servers : ~ stats.servers[s].error })
    IN  [ totals |->
            one({ [ u \in { canon(t) : t \in cnt } |->
                      one({ user_totals(stats, mine) :
                              mine \in { SetToSeq({ t \in cnt : canon(t) = u }) } }) ] :
                  cnt \in { Counted(stats) } }),
          total_capacity |->
            SumSeq([ i \in DOMAIN live |->
                       SumSeq([ g \in DOMAIN stats.servers[live[i]].gpus |->
                                  stats.servers[live[i]].gpus[g].mem_total ]) ]) ]

default_payload ==
    [ users |-> EmptyMap,
      cluster |-> [ total_capacity_accum |-> 0, samples |-> 0,
                    last_capacity |-> 0, last_updated |-> 0 ],
      updated_at |-> 0 ]

\* a reader that takes the file's last good content when json.load raises
load_aggregate_stale(file, bad) == file

\* lines 132-143: the aggregate as update_aggregate_file reads it
load_aggregate(file, bad) ==
    IF "aggregate" \in bad THEN default_payload ELSE file

\* lines 333-340: the aggregate as the main script reads it for the lifetime pass
load_aggregate_stats(file, bad) ==
    IF "aggregate" \in bad THEN [ users |-> EmptyMap ] ELSE file

\* the record a user without an aggregate entry starts from
default_entry(now_ts) ==
    [ total_mem_accum |-> 0,
      total_gb_hours |-> [ num |-> 0, den |-> 1 ],
      samples |-> 0,
      avg_mem |-> [ num |-> 0, den |-> 1 ],
      last_sample_mem |-> 0,
      last_seen |-> 0,
      first_seen |-> now_ts,
      all_machines |-> {},
      last_sample_machines |-> {},
      raw_users_seen |-> {} ]

\* total_gb_hours taken from the sample alone
update_entry_gb_from_sample(entry, info, now_ts) ==
    LET accum == entry.total_mem_accum + info.mem
        samples == entry.samples + 1
    IN  [ entry EXCEPT
            !.total_mem_accum = accum,
            !.samples = samples,
            !.last_sample_mem = info.mem,
            !.last_seen = now_ts,
            !.total_gb_hours = [ num |-> info.mem, den |-> 1024 * 60 ],
            !.all_machines = @ \cup info.machines,
            !.last_sample_machines = info.machines,
            !.raw_users_seen = @ \cup info.raw_users,
            !.avg_mem = IF samples # 0 THEN [ num |-> accum, den |-> samples ]
                        ELSE [ num |-> 0, den |-> 1 ] ]

\* lines 165-184: one user's record after the sample `info`
update_entry(entry, info, now_ts) ==
    LET accum == entry.total_mem_accum + info.mem
        samples == entry.samples + 1
    IN  [ entry EXCEPT
            !.total_mem_accum = accum,
            !.samples = samples,
            !.last_sample_mem = info.mem,
            !.last_seen = now_ts,
            !.total_gb_hours = [ num |-> accum, den |-> 1024 * 60 ],
            !.all_machines = @ \cup info.machines,
            !.last_sample_machines = info.machines,
            !.raw_users_seen = @ \cup info.raw_users,
            !.avg_mem = IF samples # 0 THEN [ num |-> accum, den |-> samples ]
                        ELSE [ num |-> 0, den |-> 1 ] ]

\* an updater that keeps the last capacity where the code adds it up
update_aggregate_capacity_last(aggregate_data, snapshot_totals, snapshot_capacity, now_ts) ==
    [ users |->
        [ u \in DOMAIN aggregate_data.users \cup DOMAIN snapshot_totals |->
            IF u \in DOMAIN snapshot_totals
            THEN update_entry(IF u \in DOMAIN aggregate_data.users
                              THEN aggregate_data.users[u]
                              ELSE default_entry(now_ts),
                              snapshot_totals[u], now_ts)
            ELSE aggregate_data.users[u] ],
      cluster |->
        [ total_capacity_accum |-> snapshot_capacity,
          samples |-> aggregate_data.cluster.samples + 1,
          last_capacity |-> snapshot_capacity,
          last_updated |-> now_ts ],
      updated_at |-> now_ts ]

\* the aggregate written back by update_aggregate_file, given the one read
update_aggregate(aggregate_data, snapshot_totals, snapshot_capacity, now_ts) ==
    [ users |->
        [ u \in DOMAIN aggregate_data.users \cup DOMAIN snapshot_totals |->
            IF u \in DOMAIN snapshot_totals
            THEN update_entry(IF u \in DOMAIN aggregate_data.users
                              THEN aggregate_data.users[u]
                              ELSE default_entry(now_ts),
                              snapshot_totals[u], now_ts)
            ELSE aggregate_data.users[u] ],
      cluster |->
        [ total_capacity_accum |->
              aggregate_data.cluster.total_capacity_accum + snapshot_capacity,
          samples |-> aggregate_data.cluster.samples + 1,
          last_capacity |-> snapshot_capacity,
          last_updated |-> now_ts ],
      updated_at |-> now_ts ]

----------------------------------------------------------------------------
(* Inputs *)

MaxCycles == 2

T0 == [ d |-> NoDays, comps |-> <<0, 10, 0>> ]

Proc(u, m) == [ user |-> u, mem |-> m, time |-> T0 ]

Gpu(idx, procs) ==
    [ index |-> idx, mem_used |-> 50, mem_total |-> 100, util |-> 50, processes |-> procs ]

NoStats == [ servers |-> <<>> ]

EmptyStore == [ users |-> EmptyMap, updated_at |-> 0 ]

\* alias maps as load_alias_map returns them: keys in lower case
AliasMaps == { EmptyMap, ("al" :> "alice") }

\* one server, one GPU, up to two processes of distinct raw users
MainUsers == { "alice", "Al", "bob" }

MainSnapshots ==
    { [ servers |-> << [ name |-> "s1", cpu_util |-> cpu, error |-> FALSE,
                         gpus |-> << Gpu(0, [ i \in DOMAIN us |-> Proc(us[i], m) ]) >> ] >> ] :
        cpu \in { 0, 60 }, m \in { 1024, 6144000 },
        us \in { SetToSeq(U) : U \in { V \in SUBSET MainUsers : Cardinality(V) <= 2 } } }
    \cup
    { [ servers |-> << [ name |-> "s1", cpu_util |-> 0, error |-> FALSE,
                         gpus |-> << Gpu(0, << Proc(u, m) >>) >> ] >> ] :
        u \in MainUsers, m \in { 61440000, 614400000 } }

----------------------------------------------------------------------------
(* The poll cycle: fetch_stats.py main execution, lines 285-347 *)

Init ==
    /\ alias_map = EmptyMap
    /\ all_stats = NoStats
    /\ aggregate = default_payload
    /\ achievements_data = EmptyStore
    /\ new_achievements = <<>>
    /\ clock = 0
    /\ c_in = ""
    /\ c_out = <<"unknown", "unknown">>
    /\ unparsable = {}
    /\ runs = <<>>

\* a cycle whose lifetime pass reads the aggregate as it was before the update
PollCycle_stale_aggregate(stats, amap) ==
    /\ clock < MaxCycles
    /\ \E snap \in { compute_snapshot_totals(stats, amap) } :
       \E agg \in { update_aggregate(load_aggregate(aggregate, unparsable),
                                     snap.totals, snap.total_capacity, clock + 1) } :
       \E res \in { check_achievements(stats, load_aggregate_stats(aggregate, unparsable), amap,
                                       load_achievements(achievements_data, unparsable),
                                       clock + 1) } :
          /\ clock' = clock + 1
          /\ alias_map' = amap
          /\ all_stats' = stats
          /\ aggregate' = agg
          /\ achievements_data' = [ res.data EXCEPT !.updated_at = clock + 1 ]
          /\ new_achievements' = res.new
          /\ unparsable' = {}
          /\ UNCHANGED <<c_in, c_out, runs>>

\* (the \E over a one-element set names a value computed once)
PollCycle(stats, amap) ==
    /\ clock < MaxCycles
    /\ \E snap \in { compute_snapshot_totals(stats, amap) } :
       \E agg \in { update_aggregate(load_aggregate(aggregate, unparsable),
                                     snap.totals, snap.total_capacity, clock + 1) } :
       \E res \in { check_achievements(stats, load_aggregate_stats(agg, {}), amap,
                                       load_achievements(achievements_data, unparsable),
                                       clock + 1) } :
          /\ clock' = clock + 1
          /\ alias_map' = amap
          /\ all_stats' = stats
          /\ aggregate' = agg
          /\ achievements_data' = [ res.data EXCEPT !.updated_at = clock + 1 ]
          /\ new_achievements' = res.new
          /\ unparsable' = {}
          /\ UNCHANGED <<c_in, c_out, runs>>

Poll == \E stats \in MainSnapshots, amap \in AliasMaps : PollCycle(stats, amap)

\* check_achievements called once more on what the last cycle left: the same
\* snapshot, aggregate and alias map, the store the first call returned, and
\* a later instant
Recheck ==
    /\ clock > 0
    /\ \E res \in { check_achievements(all_stats, aggregate, alias_map,
                                         achievements_data, clock + 1) } :
          /\ achievements_data' = res.data
          /\ new_achievements' = res.new
          /\ UNCHANGED <<alias_map, all_stats, aggregate, clock, c_in, c_out,
                         unparsable, runs>>

Next == Poll \/ Recheck

Spec == Init /\ [][Next]_vars

----------------------------------------------------------------------------
(* Co-occupancy inputs: one server of one or two GPUs, each with up to two  *)
(* processes of distinct raw users, root and the empty user among them      *)

CoopUsers == { "alice", "Al", "bob", "root" }

CoopMem(u) == IF u = "root" THEN 6144000 ELSE 1024

CoopProcLists ==
    { [ i \in DOMAIN us |-> Proc(us[i], CoopMem(us[i])) ] :
        us \in { SetToSeq(U) : U \in { V \in SUBSET CoopUsers : Cardinality(V) <= 2 } } }

\* the second GPU carries at most one process
CoopGpuLists ==
    { << [ Gpu(0, p0) EXCEPT !.util = 96, !.mem_used = 99 ] >> : p0 \in CoopProcLists }
    \cup { << [ Gpu(0, p0) EXCEPT !.util = 96, !.mem_used = 99 ], Gpu(1, p1) >> :
             p0 \in CoopProcLists,
             p1 \in { q \in CoopProcLists : Len(q) = 0 \/ (Len(q) = 1 /\ q[1].user # "Al") } }
    \cup { << Gpu(0, << Proc("alice", 1024), Proc("bob", 1024) >>),
              Gpu(1, << Proc("Al", 1024), Proc("carol", 1024) >>) >> }

CoopServer(err, gl) == [ name |-> "s1", cpu_util |-> 96, error |-> err, gpus |-> gl ]

CoopSnapshots ==
    { [ servers |-> << CoopServer(FALSE, gl) >> ] : gl \in CoopGpuLists }
    \cup { [ servers |-> << CoopServer(TRUE, << Gpu(0, p0) >>) >> ] :
             p0 \in { q \in CoopProcLists : Len(q) = 2 /\ q[1].user # "root" /\ q[2].user # "root" } }

CoopAliasMaps == { EmptyMap, ("al" :> "alice") }

PollCoop == \E stats \in CoopSnapshots, amap \in CoopAliasMaps : PollCycle(stats, amap)

NextCoop == PollCoop

SpecCoop == Init /\ [][NextCoop]_vars

----------------------------------------------------------------------------
(* Root inputs: one live server of one or two GPUs at 99% memory and 96%    *)
(* utilisation, with processes of root (6144000 MiB each), of alice and of  *)
(* a raw name that one of the alias maps resolves to "root"                 *)

RootUsers == { "alice", "Al", "root" }

RootProcLists ==
    { [ i \in DOMAIN us |-> Proc(us[i], CoopMem(us[i])) ] :
        us \in { SetToSeq(U) : U \in { V \in SUBSET RootUsers : Cardinality(V) <= 2 } } }

RootGpu(idx, procs) == [ Gpu(idx, procs) EXCEPT !.util = 96, !.mem_used = 99 ]

RootSnapshots ==
    { [ servers |-> << CoopServer(FALSE, gl) >> ] :
        gl \in { << RootGpu(0, p0) >> : p0 \in RootProcLists }
               \cup { << RootGpu(0, p0), RootGpu(1, p1) >> :
                        p0 \in RootProcLists, p1 \in { q \in RootProcLists : Len(q) <= 1 } } }

RootAliasMaps == { EmptyMap, ("al" :> "root") }

PollRoot == \E stats \in RootSnapshots, amap \in RootAliasMaps : PollCycle(stats, amap)

NextRoot == PollRoot

SpecRoot == Init /\ [][NextRoot]_vars

----------------------------------------------------------------------------
(* Threshold inputs: nS servers of nG GPUs, every GPU running one process   *)
(* of alice, and optionally one of bob on the first GPU                     *)

MaxServers == 5
MaxGpus == 8

SrvNames == << "s1", "s2", "s3", "s4", "s5", "s6" >>

ThreshSnapshot(nS, nG, m, fill, t, second) ==
    [ servers |->
        [ s \in 1..nS |->
            [ name |-> SrvNames[s], cpu_util |-> 0, error |-> FALSE,
              gpus |->
                [ g \in 1..nG |->
                    [ index |-> g - 1, mem_used |-> fill[1], mem_total |-> fill[2],
                      util |-> 50,
                      processes |->
                        << [ user |-> "alice", mem |-> m, time |-> t ] >>
                        \o (IF second /\ s = 1 /\ g = 1 THEN << Proc("bob", 1024) >>
                            ELSE <<>>) ] ] ] ] ]

ThreshTimes ==
    { T0,
      [ d |-> 1, comps |-> <<0, 0, 0>> ],
      [ d |-> 7, comps |-> <<0, 0, 0>> ],
      [ d |-> NoDays, comps |-> <<200, 0>> ] }

ThreshSnapshots ==
    { ThreshSnapshot(l[1], l[2], m, fill, t, second) :
        l \in { <<1, 1>>, <<1, MaxGpus>>, <<3, 1>>, <<MaxServers, 1>>, <<MaxServers, 2>> },
        m \in { 1024, 307200, 512000 },
        fill \in { <<50, 100>>, <<90, 100>>, <<995, 1000>> },
        t \in ThreshTimes,
        second \in BOOLEAN }

PollThresh == \E stats \in ThreshSnapshots : PollCycle(stats, EmptyMap)

NextThresh == PollThresh

SpecThresh == Init /\ [][NextThresh]_vars

----------------------------------------------------------------------------
(* Canonicaliser probe: both copies of the function applied to one name     *)

RawNames == { "", "alice", "Alice", "al", "Al", "AL", "bob", "Bob", "carol" }

CanonAliasMaps ==
    UNION { [ K -> { "alice", "Bob", "al" } ] : K \in SUBSET { "al", "alice", "bob" } }

InitCanon ==
    /\ alias_map \in CanonAliasMaps
    /\ all_stats = NoStats
    /\ aggregate = default_payload
    /\ achievements_data = EmptyStore
    /\ new_achievements = <<>>
    /\ clock = 0
    /\ c_in = ""
    /\ c_out = <<"unknown", "unknown">>
    /\ unparsable = {}
    /\ runs = <<>>

Canonicalize ==
    \E raw \in RawNames :
        /\ c_in' = raw
        /\ c_out' = << canonicalize_user(raw, alias_map), canonicalize(raw, alias_map) >>
        /\ UNCHANGED <<alias_map, all_stats, aggregate, achievements_data,
                       new_achievements, clock, unparsable, runs>>

NextCanon == Canonicalize

SpecCanon == InitCanon /\ [][NextCanon]_vars

----------------------------------------------------------------------------
(* Machine inputs: the servers lo..hi of SrvNames, each with one GPU running *)
(* one process of user u, all at the same CPU utilisation                   *)

GlobeSnapshot(lo, hi, cpu, u) ==
    [ servers |->
        [ s \in 1..(hi - lo + 1) |->
            [ name |-> SrvNames[lo + s - 1], cpu_util |-> cpu, error |-> FALSE,
              gpus |-> << Gpu(0, << Proc(u, 1024) >>) >> ] ] ]

GlobeSnapshots ==
    { GlobeSnapshot(lo, hi, cpu, u) :
        lo \in 1..MaxServers, hi \in 1..MaxServers, cpu \in { 0, 60 }, u \in { "alice", "bob" } }

PollGlobe == \E stats \in GlobeSnapshots : PollCycle(stats, EmptyMap)

NextGlobe == PollGlobe

SpecGlobe == Init /\ [][NextGlobe]_vars

----------------------------------------------------------------------------
(* Damaged stores: between two cycles either store file may be left with    *)
(* bytes that json.load rejects                                             *)

StoreFiles == { "aggregate", "achievements" }

DamageSnapshots ==
    { [ servers |-> << [ name |-> "s1", cpu_util |-> 0, error |-> FALSE,
                         gpus |-> << Gpu(0, [ i \in DOMAIN us |-> Proc(us[i], m) ]) >> ] >> ] :
        m \in { 1024, 6144000 },
        us \in { SetToSeq(U) : U \in SUBSET { "alice", "bob" } } }

Damage ==
    \E f \in StoreFiles :
        /\ clock < MaxCycles
        /\ f \notin unparsable
        /\ unparsable' = unparsable \cup { f }
        /\ UNCHANGED <<alias_map, all_stats, aggregate, achievements_data,
                       new_achievements, clock, c_in, c_out, runs>>

PollDamaged == \E stats \in DamageSnapshots : PollCycle(stats, EmptyMap)

NextDamage == PollDamaged \/ Damage

SpecDamage == Init /\ [][NextDamage]_vars

----------------------------------------------------------------------------
(* Two runs of the script overlapping in time.  Each run is the main        *)
(* execution cut at its file operations: the aggregate file is read         *)
(* (fetch_stats.py 132-143) and written (190-192) by update_aggregate_file, *)
(* read again (333-340), and the achievements file is read (330) and        *)
(* written (347).  Nothing in the script locks either file.                 *)

RunIds == { 1, 2 }

RaceSnapshots ==
    { [ servers |-> << [ name |-> "s1", cpu_util |-> 0, error |-> FALSE,
                         gpus |-> << Gpu(0, << Proc(u, m) >>) >> ] >> ] :
        u \in { "alice", "bob" }, m \in { 1024, 6144000 } }

NoRun ==
    [ pc |-> "done", stats |-> NoStats, amap |-> EmptyMap, now |-> 0,
      aggregate_data |-> default_payload, aggregate_stats |-> default_payload,
      achievements_data |-> EmptyStore ]

InitRace ==
    /\ alias_map = EmptyMap
    /\ all_stats = NoStats
    /\ aggregate = default_payload
    /\ achievements_data = EmptyStore
    /\ new_achievements = <<>>
    /\ clock = 0
    /\ c_in = ""
    /\ c_out = <<"unknown", "unknown">>
    /\ unparsable = {}
    /\ runs = [ r \in RunIds |-> NoRun ]

\* the aggregate a writer would leave if it folded its snapshot into the
\* file's content at the time of writing
aggregate_written_locked(file, aggregate_data, snap, now_ts) ==
    update_aggregate(file, snap.totals, snap.total_capacity, now_ts)

\* lines 145-192: what update_aggregate_file writes, `file` being the file's
\* content at the time of writing and aggregate_data what the run read
aggregate_written(file, aggregate_data, snap, now_ts) ==
    update_aggregate(aggregate_data, snap.totals, snap.total_capacity, now_ts)

\* lines 285-325: the snapshot is taken and reduced
RunStart(r) ==
    /\ runs[r].pc = "done"
    /\ clock < MaxCycles
    /\ \E stats \in RaceSnapshots :
          runs' = [ runs EXCEPT ![r] = [ NoRun EXCEPT !.pc = "agg_load", !.stats = stats,
                                                     !.now = clock + 1 ] ]
    /\ clock' = clock + 1
    /\ UNCHANGED <<alias_map, all_stats, aggregate, achievements_data, new_achievements,
                   c_in, c_out, unparsable>>

\* lines 132-143
RunLoadAggregate(r) ==
    /\ runs[r].pc = "agg_load"
    /\ runs' = [ runs EXCEPT ![r].pc = "agg_write",
                             ![r].aggregate_data = load_aggregate(aggregate, unparsable) ]
    /\ UNCHANGED <<alias_map, all_stats, aggregate, achievements_data, new_achievements,
                   clock, c_in, c_out, unparsable>>

\* lines 145-192
RunWriteAggregate(r) ==
    /\ runs[r].pc = "agg_write"
    /\ aggregate' = aggregate_written(aggregate, runs[r].aggregate_data,
                                      compute_snapshot_totals(runs[r].stats, runs[r].amap),
                                      runs[r].now)
    /\ unparsable' = unparsable \ { "aggregate" }
    /\ runs' = [ runs EXCEPT ![r].pc = "ach_load" ]
    /\ UNCHANGED <<alias_map, all_stats, achievements_data, new_achievements,
                   clock, c_in, c_out>>

\* line 330
RunLoadAchievements(r) ==
    /\ runs[r].pc = "ach_load"
    /\ runs' = [ runs EXCEPT ![r].pc = "agg_reload",
                             ![r].achievements_data =
                                 load_achievements(achievements_data, unparsable) ]
    /\ UNCHANGED <<alias_map, all_stats, aggregate, achievements_data, new_achievements,
                   clock, c_in, c_out, unparsable>>

\* lines 333-340
RunReloadAggregate(r) ==
    /\ runs[r].pc = "agg_reload"
    /\ runs' = [ runs EXCEPT ![r].pc = "check",
                             ![r].aggregate_stats =
                                 load_aggregate_stats(aggregate, unparsable) ]
    /\ UNCHANGED <<alias_map, all_stats, aggregate, achievements_data, new_achievements,
                   clock, c_in, c_out, unparsable>>

\* lines 342-360: check_achievements on what the run holds, then the write of
\* the achievements file and of the snapshot
RunCheckAndSave(r) ==
    /\ runs[r].pc = "check"
    /\ \E res \in { check_achievements(runs[r].stats, runs[r].aggregate_stats, runs[r].amap,
                                       runs[r].achievements_data, runs[r].now) } :
          /\ achievements_data' = [ res.data EXCEPT !.updated_at = runs[r].now ]
          /\ new_achievements' = res.new
    /\ unparsable' = unparsable \ { "achievements" }
    /\ all_stats' = runs[r].stats
    /\ alias_map' = runs[r].amap
    /\ runs' = [ runs EXCEPT ![r].pc = "done" ]
    /\ UNCHANGED <<aggregate, clock, c_in, c_out>>

NextRace ==
    \E r \in RunIds :
        \/ RunStart(r)
        \/ RunLoadAggregate(r)
        \/ RunWriteAggregate(r)
        \/ RunLoadAchievements(r)
        \/ RunReloadAggregate(r)
        \/ RunCheckAndSave(r)

SpecRace == InitRace /\ [][NextRace]_vars

----------------------------------------------------------------------------
(* Errored inputs: two servers at 96% CPU, each live or marked with an      *)
(* error, each with one GPU at 99% memory and 96% utilisation that carries  *)
(* processes of 6144000 MiB whether the server is marked or not             *)

ErrServer(nm, err, us) ==
    [ name |-> nm, cpu_util |-> 96, error |-> err,
      gpus |-> << RootGpu(0, [ i \in DOMAIN us |-> Proc(us[i], 6144000) ]) >> ]

ErrSnapshots ==
    { [ servers |-> << ErrServer("s1", e1, u1), ErrServer("s2", e2, u2) >> ] :
        e1 \in BOOLEAN, e2 \in BOOLEAN,
        u1 \in { <<>>, << "alice" >>, << "bob" >>, << "alice", "bob" >> },
        u2 \in { << "alice" >>, << "alice", "bob" >> } }

PollErr == \E stats \in ErrSnapshots : PollCycle(stats, EmptyMap)

NextErr == PollErr

SpecErr == Init /\ [][NextErr]_vars

----------------------------------------------------------------------------
(* Nameless inputs: one live server with one GPU whose processes include    *)
(* one without a user, under alias maps one of which has the key "unknown"  *)

NamelessSnapshots ==
    { [ servers |-> << [ name |-> "s1", cpu_util |-> cpu, error |-> FALSE,
                         gpus |-> << Gpu(0, [ i \in DOMAIN us |-> Proc(us[i], m) ]) >> ] >> ] :
        cpu \in { 0, 60, 96 }, m \in { 1024, 6144000 },
        us \in { <<>>, << "" >>, << "alice" >>, << "", "alice" >>, << "unknown" >> } }

NamelessAliasMaps == { EmptyMap, ("al" :> "alice"), ("unknown" :> "guest") }

PollNameless ==
    \E stats \in NamelessSnapshots, amap \in NamelessAliasMaps : PollCycle(stats, amap)

NextNameless == PollNameless

SpecNameless == Init /\ [][NextNameless]_vars

----------------------------------------------------------------------------
(* Fixed-alias inputs: the alias file does not change between cycles; one   *)
(* of the alias maps sends a name to a name that is itself a key            *)

FixedAliasMaps ==
    { EmptyMap, ("al" :> "alice"), ("al" :> "bob") @@ ("bob" :> "robert") }

FixedSnapshots ==
    { [ servers |-> << [ name |-> "s1", cpu_util |-> 0, error |-> FALSE,
                         gpus |-> << Gpu(0, [ i \in DOMAIN us |-> Proc(us[i], m) ]) >> ] >> ] :
        m \in { 1024, 6144000 },
        us \in { SetToSeq(U) :
                  U \in { V \in SUBSET { "al", "alice", "bob" } : Cardinality(V) <= 2 } } }

PollFixed ==
    \E stats \in FixedSnapshots, amap \in FixedAliasMaps :
        /\ clock = 0 \/ amap = alias_map
        /\ PollCycle(stats, amap)

NextFixed == PollFixed

SpecFixed == Init /\ [][NextFixed]_vars

----------------------------------------------------------------------------
(* Properties *)

\* a <= b for rationals [num, den] with den > 0
RatLeq(a, b) ==
    IF a.den = b.den THEN a.num <= b.num ELSE a.num * b.den <= b.num * a.den

Has(data, u, id) == u \in DOMAIN data.users /\ id \in DOMAIN data.users[u]

NewPairs == { <<new_achievements[i].user, new_achievements[i].achievement_id>> :
                i \in DOMAIN new_achievements }

\* a step that ran check_achievements: a poll cycle or a second call
Checked == clock' = clock + 1 \/ (clock' = clock /\ clock > 0)

\* C1: the achievement store is write-once per (user, id): no step removes an
\* achievement a user holds or changes its earned_at.
C1_WriteOnce ==
    [][ \A u \in DOMAIN achievements_data.users :
          \A id \in DOMAIN achievements_data.users[u] :
             /\ Has(achievements_data', u, id)
             /\ achievements_data'.users[u][id].earned_at
                  = achievements_data.users[u][id].earned_at ]_vars

\* C1 witness: an achievement earned in the first cycle is still held, with its
\* first timestamp, after a second cycle in which the user was awarded it again.
C1_Witness ==
    /\ clock = 2
    /\ \E u \in DOMAIN user_snapshot(all_stats, alias_map) :
          /\ Has(achievements_data, u, "first_blood")
          /\ achievements_data.users[u]["first_blood"].earned_at = 1

\* C2: a second check_achievements call on the same snapshot, aggregate and
\* alias map and on the store the first call returned yields no newly-earned
\* entry and leaves the user -> achievement mapping unchanged.
C2_Idempotent ==
    [][ (clock' = clock /\ clock > 0)
          => /\ new_achievements' = <<>>
             /\ achievements_data'.users = achievements_data.users ]_vars

\* C2 witness: the second call has run (the list is empty) after a cycle
\* that did award something.
C2_Witness ==
    /\ clock > 0
    /\ new_achievements = <<>>
    /\ \E u \in DOMAIN achievements_data.users :
          \E id \in DOMAIN achievements_data.users[u] :
             achievements_data.users[u][id].earned_at = clock

\* C3: from one cycle to the next every aggregate user record stays, and its
\* samples, total_mem_accum, total_gb_hours and |all_machines| do not decrease.
C3_AggregateMonotone ==
    [][ \A u \in DOMAIN aggregate.users :
          /\ u \in DOMAIN aggregate'.users
          /\ aggregate'.users[u].samples >= aggregate.users[u].samples
          /\ aggregate'.users[u].total_mem_accum >= aggregate.users[u].total_mem_accum
          /\ RatLeq(aggregate.users[u].total_gb_hours, aggregate'.users[u].total_gb_hours)
          /\ Cardinality(aggregate'.users[u].all_machines)
               >= Cardinality(aggregate.users[u].all_machines) ]_vars

\* C3 witness: a user sampled in two cycles, the second sample smaller than
\* the first.
C3_Witness ==
    \E u \in DOMAIN aggregate.users :
       /\ aggregate.users[u].samples = 2
       /\ aggregate.users[u].last_sample_mem * 2 < aggregate.users[u].total_mem_accum

\* the snapshot without the process records whose raw user is "root"
StripRoot(stats) ==
    [ servers |->
        [ s \in DOMAIN stats.servers |->
            [ stats.servers[s] EXCEPT !.gpus =
                [ g \in DOMAIN stats.servers[s].gpus |->
                    [ stats.servers[s].gpus[g] EXCEPT !.processes =
                        SelectSeq(stats.servers[s].gpus[g].processes,
                                  LAMBDA pr : pr.user # "root") ] ] ] ] ]

HasRoot(stats) == StripRoot(stats) # stats

\* C4: root exclusion: the transient stats, the snapshot totals, the aggregate
\* and the achievement store and newly-earned list of a cycle are those of
\* the same cycle run on the snapshot without its root processes.
C4_RootExcluded ==
    [][ clock' = clock + 1 =>
          \A bare \in { StripRoot(all_stats') } :
          \A tot \in { compute_snapshot_totals(bare, alias_map') } :
          \A agg \in { update_aggregate(aggregate, tot.totals, tot.total_capacity, clock') } :
          \A res \in { check_achievements(bare, agg, alias_map', achievements_data, clock') } :
              /\ user_snapshot(all_stats', alias_map') = user_snapshot(bare, alias_map')
              /\ compute_snapshot_totals(all_stats', alias_map') = tot
              /\ aggregate' = agg
              /\ achievements_data'.users = res.data.users
              /\ new_achievements' = res.new ]_vars

\* C4 witness: a cycle has run on a live server where a root process with a
\* large memory figure sits beside another user's process.
C4_Witness ==
    /\ clock > 0
    /\ \E s \in DOMAIN all_stats.servers :
          /\ ~ all_stats.servers[s].error
          /\ \E g \in DOMAIN all_stats.servers[s].gpus :
                \E p, q \in DOMAIN all_stats.servers[s].gpus[g].processes :
                   /\ all_stats.servers[s].gpus[g].processes[p].user = "root"
                   /\ all_stats.servers[s].gpus[g].processes[p].mem >= 307200
                   /\ all_stats.servers[s].gpus[g].processes[q].user # "root"
    /\ DOMAIN aggregate.users # {}

\* C5: after a check_achievements call the newly-earned list holds (user, id)
\* exactly when the pair was absent from the store before the call and is
\* present after it, holds it once, and carries the earned_at written.
C5_NewlyEarnedExact ==
    [][ Checked =>
          /\ \A u \in DOMAIN achievements_data'.users :
                \A id \in DOMAIN achievements_data'.users[u] :
                   (~ Has(achievements_data, u, id))
                     <=> (\E i \in DOMAIN new_achievements' :
                             /\ new_achievements'[i].user = u
                             /\ new_achievements'[i].achievement_id = id)
          /\ \A i \in DOMAIN new_achievements' :
                /\ Has(achievements_data', new_achievements'[i].user,
                       new_achievements'[i].achievement_id)
                /\ new_achievements'[i].timestamp
                     = achievements_data'.users[new_achievements'[i].user]
                          [new_achievements'[i].achievement_id].earned_at
                /\ \A j \in DOMAIN new_achievements' :
                      (/\ new_achievements'[j].user = new_achievements'[i].user
                       /\ new_achievements'[j].achievement_id
                            = new_achievements'[i].achievement_id) => j = i ]_vars

\* C5 witness: a second cycle that added entries for a user who already held
\* others, one of which was awarded again without being listed.
C5_Witness ==
    /\ clock = 2
    /\ \E i \in DOMAIN new_achievements :
          /\ Has(achievements_data, new_achievements[i].user, "first_blood")
          /\ achievements_data.users[new_achievements[i].user]["first_blood"].earned_at = 1
          /\ new_achievements[i].user \in DOMAIN user_snapshot(all_stats, alias_map)

\* the canonical user of a process record that is not root's
CanonOf(pr) == canonicalize(raw_user_of(pr), alias_map)
NonRoot(pr) == raw_user_of(pr) # "root"

LiveServers == { s \in DOMAIN all_stats.servers : ~ all_stats.servers[s].error }

\* the canonical users with a non-root process on some GPU of server s
Occupants(s) ==
    UNION { { CanonOf(all_stats.servers[s].gpus[g].processes[p]) :
                p \in { q \in DOMAIN all_stats.servers[s].gpus[g].processes :
                          NonRoot(all_stats.servers[s].gpus[g].processes[q]) } } :
            g \in DOMAIN all_stats.servers[s].gpus }

\* every GPU of server s is occupied by a non-root process and at least two
\* distinct canonical users occupy its GPUs in total
FullHouseAsSpecified(s) ==
    /\ \A g \in DOMAIN all_stats.servers[s].gpus :
          \E p \in DOMAIN all_stats.servers[s].gpus[g].processes :
             NonRoot(all_stats.servers[s].gpus[g].processes[p])
    /\ Cardinality(Occupants(s)) >= 2

\* C6: full_house is newly awarded on a live server only when every GPU of it
\* is occupied by a non-root process and at least two distinct canonical users
\* occupy its GPUs; every occupant of such a server then holds it.
C6_FullHouseAsClaimed ==
    \A i \in DOMAIN new_achievements :
       new_achievements[i].achievement_id = "full_house"
         => \E s \in LiveServers :
               /\ FullHouseAsSpecified(s)
               /\ new_achievements[i].user \in Occupants(s)
               /\ \A u \in Occupants(s) : Has(achievements_data, u, "full_house")

\* user u has a non-root process on a GPU record of a live server that also
\* holds a non-root process of another canonical user
SharesGpu(u) ==
    \E s \in LiveServers :
       \E g \in DOMAIN all_stats.servers[s].gpus :
          \E p, q \in DOMAIN all_stats.servers[s].gpus[g].processes :
             /\ NonRoot(all_stats.servers[s].gpus[g].processes[p])
             /\ NonRoot(all_stats.servers[s].gpus[g].processes[q])
             /\ CanonOf(all_stats.servers[s].gpus[g].processes[p]) = u
             /\ CanonOf(all_stats.servers[s].gpus[g].processes[q]) # u

\* C7: a user who shares a GPU record of a live server with another canonical
\* user holds gpu_roommate after the cycle, and gpu_roommate is newly earned
\* only by such a user; two raw names of one canonical user are one user.
C7_Roommate ==
    /\ \A s \in LiveServers : \A u \in Occupants(s) :
          SharesGpu(u) => Has(achievements_data, u, "gpu_roommate")
    /\ \A i \in DOMAIN new_achievements :
          new_achievements[i].achievement_id = "gpu_roommate"
            => SharesGpu(new_achievements[i].user)

\* C7 witness: bob earned gpu_roommate in a cycle; in this cycle alice's two
\* raw names share a GPU under an alias that merges them, and she holds none.
C7_Witness ==
    /\ clock = 2
    /\ "al" \in DOMAIN alias_map
    /\ \E s \in LiveServers : \E g \in DOMAIN all_stats.servers[s].gpus :
          { all_stats.servers[s].gpus[g].processes[p].user :
              p \in DOMAIN all_stats.servers[s].gpus[g].processes } = { "alice", "Al" }
    /\ Has(achievements_data, "alice", "first_blood")
    /\ ~ Has(achievements_data, "alice", "gpu_roommate")
    /\ Has(achievements_data, "bob", "gpu_roommate")

LifetimeTiers == { <<100, "gpu_veteran">>, <<1000, "gpu_hero">>, <<10000, "gpu_legend">> }

ReachedTier(k, tier) ==
    aggregate.users[k].total_gb_hours.num >= tier[1] * aggregate.users[k].total_gb_hours.den

\* C8: for every aggregate record whose total_gb_hours reaches a lifetime
\* tier, the tier's achievement is stored under the alias-resolved name of the
\* record's key, and a lifetime achievement is newly stored under no other
\* name.
C8_LifetimeCanonical ==
    /\ clock > 0 =>
          \A k \in DOMAIN aggregate.users : \A tier \in LifetimeTiers :
             ReachedTier(k, tier)
               => Has(achievements_data, canonicalize(k, alias_map), tier[2])
    /\ \A i \in DOMAIN new_achievements : \A tier \in LifetimeTiers :
          new_achievements[i].achievement_id = tier[2]
            => \E k \in DOMAIN aggregate.users :
                  /\ ReachedTier(k, tier)
                  /\ canonicalize(k, alias_map) = new_achievements[i].user

\* C8 witness: an aggregate record kept under a raw name that the alias map
\* now resolves to another user, who is absent from the snapshot and newly
\* holds gpu_veteran.
C8_Witness ==
    \E k \in DOMAIN aggregate.users :
       /\ canonicalize(k, alias_map) # k
       /\ ReachedTier(k, <<100, "gpu_veteran">>)
       /\ canonicalize(k, alias_map) \notin DOMAIN user_snapshot(all_stats, alias_map)
       /\ <<canonicalize(k, alias_map), "gpu_veteran">> \in NewPairs

\* C9: canonicalize returns "unknown" for an empty name, the alias map's value
\* for lower(raw) when that key exists, and raw itself otherwise; both copies
\* of the function do.
C9_Canonicalize ==
    \A i \in 1..2 :
       c_out[i] = IF c_in = "" THEN "unknown"
                  ELSE IF lower(c_in) \in DOMAIN alias_map THEN alias_map[lower(c_in)]
                  ELSE c_in

\* C9 witness: a name in upper case resolved through the lower-case key to a
\* value whose own casing is kept.
C9_Witness ==
    /\ c_in = "AL"
    /\ "al" \in DOMAIN alias_map
    /\ alias_map["al"] = "Bob"
    /\ c_out = << "Bob", "Bob" >>

NestedPairs ==
    { <<"memory_perfectionist", "memory_titan">>, <<"gpu_hoarder", "quad_gpu_master">>,
      <<"ram_monster", "ram_beast">>, <<"gpu_ultra_marathon", "gpu_marathon">>,
      <<"cluster_overlord", "cluster_commander">> }

\* the transient stat of st meets the higher threshold of pair pr
MeetsHigher(st, pr) ==
    CASE pr[1] = "memory_perfectionist" -> st.max_gpu_mem_percent >= 99
      [] pr[1] = "gpu_hoarder" -> st.gpu_count >= 8
      [] pr[1] = "ram_monster" -> st.total_mem_mb >= 500 * 1024
      [] pr[1] = "gpu_ultra_marathon" -> st.max_process_hours >= 168 * 3600
      [] pr[1] = "cluster_overlord" -> Cardinality(st.machines) >= 5

\* C10: after a cycle every user with transient stats holds first_blood, and
\* one whose stat meets the higher threshold of a nested pair holds both
\* achievements of the pair, neither earned later than this cycle and the
\* lower one no later than the higher.
C10_NestedThresholds ==
    clock > 0 =>
      \A snap \in { user_snapshot(all_stats, alias_map) } :
      \A u \in DOMAIN snap :
         /\ Has(achievements_data, u, "first_blood")
         /\ \A pr \in NestedPairs :
               MeetsHigher(snap[u], pr)
                 => /\ Has(achievements_data, u, pr[1])
                    /\ Has(achievements_data, u, pr[2])
                    /\ achievements_data.users[u][pr[2]].earned_at
                         <= achievements_data.users[u][pr[1]].earned_at

\* C10 witness: one pass in which alice newly earns both achievements of all
\* five nested pairs while bob earns first_blood.
C10_Witness ==
    /\ \A pr \in NestedPairs :
          /\ <<"alice", pr[1]>> \in NewPairs
          /\ <<"alice", pr[2]>> \in NewPairs
    /\ <<"bob", "first_blood">> \in NewPairs

\* the servers named by the machine entries of the aggregate records whose key
\* resolves to user u: a machine entry, tagged or not, is added only for a
\* server on which the user had a non-root GPU process
ServersOf(u) ==
    UNION { { m[1] : m \in aggregate.users[k].all_machines } :
              k \in { j \in DOMAIN aggregate.users : canonicalize(j, alias_map) = u } }

\* C11: a user holds globe_trotter only if, over the cycles so far, the user
\* has had non-root GPU processes on at least 10 distinct servers.
C11_GlobeTrotterTenServers ==
    \A u \in DOMAIN achievements_data.users :
       Has(achievements_data, u, "globe_trotter") => Cardinality(ServersOf(u)) >= 10

\* C12: a cycle that finds the aggregate file unparsable leaves an aggregate
\* that holds this cycle's snapshot alone (one cluster sample of its capacity,
\* one sample of its mem for each of its users and no other user); one that
\* finds the achievements file unparsable leaves a store in which every entry
\* was earned in this cycle and is listed as new; both files parse afterwards.
C12_DamagedStoreReset ==
    [][ clock' = clock + 1 =>
          \A snap \in { compute_snapshot_totals(all_stats', alias_map') } :
             /\ unparsable' = {}
             /\ "aggregate" \in unparsable =>
                   /\ aggregate'.cluster
                        = [ total_capacity_accum |-> snap.total_capacity, samples |-> 1,
                            last_capacity |-> snap.total_capacity, last_updated |-> clock' ]
                   /\ DOMAIN aggregate'.users = DOMAIN snap.totals
                   /\ \A u \in DOMAIN snap.totals :
                         /\ aggregate'.users[u].samples = 1
                         /\ aggregate'.users[u].total_mem_accum = snap.totals[u].mem
                         /\ aggregate'.users[u].first_seen = clock'
                         /\ aggregate'.users[u].all_machines = snap.totals[u].machines
             /\ "achievements" \in unparsable =>
                   /\ DOMAIN user_snapshot(all_stats', alias_map')
                        \subseteq DOMAIN achievements_data'.users
                   /\ \A u \in DOMAIN achievements_data'.users :
                         \A id \in DOMAIN achievements_data'.users[u] :
                            /\ achievements_data'.users[u][id].earned_at = clock'
                            /\ \E i \in DOMAIN new_achievements' :
                                  /\ new_achievements'[i].user = u
                                  /\ new_achievements'[i].achievement_id = id ]_vars

\* C12 witness: the second cycle found both files unparsable after a first
\* cycle had run: the stores hold the second cycle alone and parse again.
C12_Witness ==
    /\ clock = 2
    /\ unparsable = {}
    /\ aggregate.cluster.samples = 1
    /\ \E u \in DOMAIN aggregate.users :
          /\ aggregate.users[u].first_seen = 2
          /\ Has(achievements_data, u, "gpu_veteran")
          /\ achievements_data.users[u]["gpu_veteran"].earned_at = 2
    /\ \A u \in DOMAIN achievements_data.users :
          \A id \in DOMAIN achievements_data.users[u] :
             achievements_data.users[u][id].earned_at = 2

\* the users of the snapshot of run r
RunUsers(r) == DOMAIN compute_snapshot_totals(runs[r].stats, runs[r].amap).totals

\* C13: with two runs overlapping and no lock, a writer's file is built from
\* what that run read, whatever was written since: after run r writes the
\* aggregate, cluster.samples is one more than the count r read and every
\* user outside r's snapshot has the record r read or none; after r saves
\* the achievements, a user r awarded nothing has the entries r read or none.
\* Hence the state of C13_Witness, in which an update is lost, is reachable.
C13_LastWriterWins ==
    [][ \A r \in RunIds :
          /\ (runs[r].pc = "agg_write" /\ runs'[r].pc = "ach_load") =>
                /\ aggregate'.cluster.samples = runs[r].aggregate_data.cluster.samples + 1
                /\ DOMAIN aggregate'.users
                     = DOMAIN runs[r].aggregate_data.users \cup RunUsers(r)
                /\ \A u \in DOMAIN aggregate'.users \ RunUsers(r) :
                      aggregate'.users[u] = runs[r].aggregate_data.users[u]
          /\ (runs[r].pc = "check" /\ runs'[r].pc = "done") =>
                \A u \in DOMAIN achievements_data'.users :
                   \/ u \in DOMAIN runs[r].achievements_data.users
                   \/ \E i \in DOMAIN new_achievements' : new_achievements'[i].user = u ]_vars

\* C13 witness: two cycles of different users have both finished; the
\* aggregate counts one sample and knows one user, and the achievement store
\* holds one user.
C13_Witness ==
    /\ clock = 2
    /\ \A r \in RunIds : runs[r].pc = "done" /\ runs[r].now > 0
    /\ RunUsers(1) # RunUsers(2)
    /\ aggregate.cluster.samples = 1
    /\ Cardinality(DOMAIN aggregate.users) = 1
    /\ Cardinality(DOMAIN achievements_data.users) = 1

TierReachedIn(agg, k, tier) ==
    /\ k \in DOMAIN agg.users
    /\ agg.users[k].total_gb_hours.num >= tier[1] * agg.users[k].total_gb_hours.den

\* C14: the lifetime pass of a cycle reads the aggregate that already holds
\* the cycle's snapshot: when a record's total_gb_hours reaches a lifetime
\* tier in cycle n without having reached it before, the user the record's
\* key resolves to holds the tier's achievement after cycle n, and it is
\* listed as newly earned in cycle n unless the user held it already.
C14_LifetimeSameCycle ==
    [][ clock' = clock + 1 =>
          \A k \in DOMAIN aggregate'.users : \A tier \in LifetimeTiers :
             (TierReachedIn(aggregate', k, tier) /\ ~ TierReachedIn(aggregate, k, tier))
               => \A u \in { canonicalize(k, alias_map') } :
                     /\ Has(achievements_data', u, tier[2])
                     /\ achievements_data'.users[u][tier[2]].earned_at <= clock'
                     /\ Has(achievements_data, u, tier[2])
                          \/ \E i \in DOMAIN new_achievements' :
                                /\ new_achievements'[i].user = u
                                /\ new_achievements'[i].achievement_id = tier[2]
                                /\ new_achievements'[i].timestamp = clock' ]_vars

\* C14 witness: a record sampled twice whose accumulator passed 100 GB-hours
\* with the second sample, and whose user holds gpu_veteran earned in the
\* second cycle.
C14_Witness ==
    /\ clock = 2
    /\ \E k \in DOMAIN aggregate.users :
          /\ aggregate.users[k].samples = 2
          /\ aggregate.users[k].last_seen = 2
          /\ aggregate.users[k].total_mem_accum - aggregate.users[k].last_sample_mem
               < 100 * 1024 * 60
          /\ aggregate.users[k].total_mem_accum >= 100 * 1024 * 60
          /\ Has(achievements_data, canonicalize(k, alias_map), "gpu_veteran")
          /\ achievements_data.users[canonicalize(k, alias_map)]["gpu_veteran"].earned_at = 2

\* the snapshot without the server records that carry an error
StripErrored(stats) ==
    [ servers |-> SelectSeq(stats.servers, LAMBDA sv : ~ sv.error) ]

\* C15: a server record with error set contributes nothing: the transient
\* stats, the coop awards, the snapshot totals and capacity, the aggregate,
\* the achievement store and the newly-earned list of a cycle are those of
\* the same cycle run on the snapshot without its errored servers.
C15_ErroredServerIgnored ==
    [][ clock' = clock + 1 =>
          \A bare \in { StripErrored(all_stats') } :
          \A tot \in { compute_snapshot_totals(bare, alias_map') } :
          \A agg \in { update_aggregate(aggregate, tot.totals, tot.total_capacity, clock') } :
          \A res \in { check_achievements(bare, agg, alias_map', achievements_data, clock') } :
              /\ user_snapshot(all_stats', alias_map') = user_snapshot(bare, alias_map')
              /\ CoopCalls(all_stats', alias_map') = CoopCalls(bare, alias_map')
              /\ compute_snapshot_totals(all_stats', alias_map') = tot
              /\ aggregate' = agg
              /\ achievements_data'.users = res.data.users
              /\ new_achievements' = res.new ]_vars

\* C15 witness: a cycle has run on a snapshot whose live server runs alice
\* alone and whose errored server carries processes of alice and bob; bob is
\* in neither store, and alice holds no gpu_roommate.
C15_Witness ==
    /\ clock = 1
    /\ \E s, t \in DOMAIN all_stats.servers :
          /\ ~ all_stats.servers[s].error
          /\ Len(all_stats.servers[s].gpus[1].processes) = 1
          /\ all_stats.servers[t].error
          /\ all_stats.servers[t].cpu_util > 95
          /\ Len(all_stats.servers[t].gpus[1].processes) = 2
    /\ DOMAIN aggregate.users = { "alice" }
    /\ DOMAIN achievements_data.users = { "alice" }
    /\ ~ Has(achievements_data, "alice", "gpu_roommate")
    /\ aggregate.cluster.total_capacity_accum = 100

\* field f of the record of user u in aggregate agg, 0 when u has no record
AccumOf(agg, u, f) == IF u \in DOMAIN agg.users THEN agg.users[u][f] ELSE 0

\* C16: the aggregate is the fold of the snapshots from the empty default:
\* after every cycle cluster.samples is the number of cycles run, and the
\* cycle added its capacity to total_capacity_accum, one sample and its mem
\* to the record of each user of its snapshot totals and nothing to any
\* other record; avg_mem = total_mem_accum / samples in every record.
C16_AggregateIsFold ==
    [][ clock' = clock + 1 =>
          \A snap \in { compute_snapshot_totals(all_stats', alias_map') } :
             /\ aggregate'.cluster.samples = clock'
             /\ aggregate'.cluster.total_capacity_accum
                  = aggregate.cluster.total_capacity_accum + snap.total_capacity
             /\ DOMAIN aggregate'.users = DOMAIN aggregate.users \cup DOMAIN snap.totals
             /\ \A u \in DOMAIN aggregate'.users :
                   /\ aggregate'.users[u].samples
                        = AccumOf(aggregate, u, "samples")
                            + (IF u \in DOMAIN snap.totals THEN 1 ELSE 0)
                   /\ aggregate'.users[u].total_mem_accum
                        = AccumOf(aggregate, u, "total_mem_accum")
                            + (IF u \in DOMAIN snap.totals THEN snap.totals[u].mem ELSE 0)
                   /\ aggregate'.users[u].samples > 0
                   /\ aggregate'.users[u].avg_mem.num * aggregate'.users[u].samples
                        = aggregate'.users[u].total_mem_accum * aggregate'.users[u].avg_mem.den ]_vars

\* C16 witness: after two cycles of capacities 100 and 200 one user has two
\* samples of different mem and another a single sample.
C16_Witness ==
    /\ clock = 2
    /\ aggregate.cluster.samples = 2
    /\ aggregate.cluster.total_capacity_accum = 300
    /\ \E u, v \in DOMAIN aggregate.users :
          /\ aggregate.users[u].samples = 2
          /\ aggregate.users[u].total_mem_accum = 6144000 + 12288000
          /\ aggregate.users[v].samples = 1
          /\ aggregate.users[v].total_mem_accum = 6144000

\* the last snapshot has, on a live server, a process record without a user
HasNameless ==
    \E s \in LiveServers : \E g \in DOMAIN all_stats.servers[s].gpus :
       \E p \in DOMAIN all_stats.servers[s].gpus[g].processes :
          all_stats.servers[s].gpus[g].processes[p].user = ""

\* C17: for every alias map, after a cycle whose snapshot holds a process
\* record without a user, "unknown" has transient stats, a snapshot total, an
\* aggregate record sampled in this cycle and first_blood.
C17_NamelessIsUnknown ==
    (clock > 0 /\ HasNameless) =>
       /\ "unknown" \in DOMAIN user_snapshot(all_stats, alias_map)
       /\ "unknown" \in DOMAIN compute_snapshot_totals(all_stats, alias_map).totals
       /\ "unknown" \in DOMAIN aggregate.users
       /\ aggregate.users["unknown"].last_seen = clock
       /\ Has(achievements_data, "unknown", "first_blood")

\* C18: after any sequence of cycles from empty stores under one fixed alias
\* map, every user key of the achievement store holds first_blood and none
\* maps to an empty set of achievements.
C18_EveryKeyHoldsFirstBlood ==
    \A u \in DOMAIN achievements_data.users :
       /\ Has(achievements_data, u, "first_blood")
       /\ DOMAIN achievements_data.users[u] # {}

====
